---- MODULE Spec2Model ----
(***************************************************************************)
(* Model of backend/embeddings.py (EmbeddingService): narrative synthesis  *)
(* from life events, the load flag and handles of the PCA/UMAP reduction   *)
(* models, and projection to 3D.                                           *)
(*                                                                         *)
(* Text is modelled as a sequence of tokens: a Python string is the        *)
(* concatenation of its tokens, so str + str is \o and an f-string is the  *)
(* tuple of its literal pieces and interpolated values.                    *)
(***************************************************************************)
EXTENDS Integers, Sequences, FiniteSets, TLC

VARIABLES
    name,            \* NarrativeInput.name (None when not given)
    description,     \* NarrativeInput.description (None when not given)
    events,          \* the caller's list of event dicts
    synth,           \* outcome of the last create_narrative_from_events call
    synth_log,       \* the calls made so far: outcome, narrative, load flag at the call
    pca_model,       \* self.pca_model
    umap_model,      \* self.umap_model
    models_loaded,   \* self._models_loaded
    pc,              \* position of the project_to_3d call in flight
    embedding_768d,  \* argument of the project_to_3d call in flight
    embedding_50d,   \* local of project_to_3d: output of the PCA stage
    stages,          \* stage applications made by the call in flight, in order
    proj,            \* outcome of the last project_to_3d call
    search,          \* arguments of the cluster and similarity searches
    found,           \* outcome of the last search
    proj_first,      \* per embedding: the coordinates first returned since the last load
    load_since_begin, \* a load has run since the last project_to_3d call began
    embed_log,       \* the generate_embedding calls made so far, with their provider calls
    job,             \* the process_and_embed_all run: position, records, provider calls, pauses
    reqs             \* the requests served concurrently: arguments, locals and results

synthVars == <<name, description, events, synth, synth_log>>
modelVars == <<pca_model, umap_model, models_loaded>>
projVars == <<pc, embedding_768d, embedding_50d, stages, proj>>
searchVars == <<search, found>>
histVars == <<proj_first, load_since_begin>>
extVars == <<embed_log, job, reqs>>
vars == <<name, description, events, synth, synth_log, pca_model, umap_model,
          models_loaded, pc, embedding_768d, embedding_50d, stages, proj,
          search, found, proj_first, load_since_begin, embed_log, job, reqs>>

----------------------------------------------------------------------------
(* Bounds of the model *)

MaxEvents == 2      \* longest mixed event list
MaxEdu == 3         \* longest education-only event list
MaxEmp == 4         \* longest employment-only event list
MaxSvcEvents == 1   \* longest event list of a request served next to projections
MaxSynthCalls == 2  \* synthesis calls followed per input
MaxClusters == 3    \* longest cluster list searched
MaxCorpus == 3      \* rows of the largest corpus index searched
MaxEmbedCalls == 2  \* generate_embedding calls followed
MaxOrder == 4       \* longest event list of the sentence-order inputs
MaxAward == 6       \* longest event list of the award inputs
MaxPersons == 4     \* most persons given to the batch embedding job
MaxRequests == 2    \* requests served concurrently

----------------------------------------------------------------------------
(* Python values *)

None == "<None>"          \* Python None, for string-valued fields
Absent == "<absent>"      \* a key the event dict does not have
NoDate == -1              \* start_date missing or None
DateMin == 0

Truthy(s) == s \notin {None, ""}

Get(v, default) == IF v = Absent THEN default ELSE v

RECURSIVE Join(_, _)
Join(parts, sep) ==
    IF parts = <<>> THEN <<>>
    ELSE IF Len(parts) = 1 THEN parts[1]
    ELSE parts[1] \o <<sep>> \o Join(Tail(parts), sep)

Whitespace == {"", " "}

Strip(text) ==
    LET keep == {i \in 1..Len(text) : text[i] \notin Whitespace}
    IN  IF keep = {} THEN <<>>
        ELSE LET lo == CHOOSE i \in keep : \A j \in keep : i <= j
                 hi == CHOOSE i \in keep : \A j \in keep : j <= i
             IN  SubSeq(text, lo, hi)

RECURSIVE Concat(_)
Concat(lists) ==
    IF lists = <<>> THEN <<>> ELSE lists[1] \o Concat(Tail(lists))

----------------------------------------------------------------------------
(* sorted(group, key=lambda e: e.get('start_date') or datetime.min.date()) *)

\* the key without its 'or datetime.min.date()' default
SortKeyNoDefault(e) == e.start_date

SortKey(e) == IF e.start_date = NoDate THEN DateMin ELSE e.start_date

Orderable(k) == k # NoDate

\* a sort that puts an element before the equal ones already placed
RECURSIVE InsertBeforeEqual(_, _)
InsertBeforeEqual(sorted, e) ==
    IF sorted = <<>> THEN <<e>>
    ELSE IF SortKey(e) <= SortKey(sorted[Len(sorted)])
         THEN InsertBeforeEqual(SubSeq(sorted, 1, Len(sorted) - 1), e)
              \o <<sorted[Len(sorted)]>>
         ELSE sorted \o <<e>>

RECURSIVE Insert(_, _)
Insert(sorted, e) ==
    IF sorted = <<>> THEN <<e>>
    ELSE IF SortKey(e) < SortKey(sorted[Len(sorted)])
         THEN Insert(SubSeq(sorted, 1, Len(sorted) - 1), e) \o <<sorted[Len(sorted)]>>
         ELSE sorted \o <<e>>

RECURSIVE Sorted(_)
Sorted(group) ==
    IF group = <<>> THEN <<>>
    ELSE Insert(Sorted(SubSeq(group, 1, Len(group) - 1)), group[Len(group)])

SortRaises(group) ==
    Len(group) >= 2 /\ \E i \in 1..Len(group) : ~Orderable(SortKey(group[i]))

----------------------------------------------------------------------------
(* create_narrative_from_events *)

FallbackSentence == <<"This person has a diverse background with various life experiences.">>

Biography(nm, desc) ==
    IF Truthy(nm) \/ Truthy(desc)
    THEN << <<IF Truthy(nm) THEN nm ELSE "This person">>
            \o (IF Truthy(desc) THEN <<" is ", desc, ".">> ELSE <<".">>) >>
    ELSE <<>>

EventType(e) == Get(e.event_type, "other")

\* event.pop('event_title', '') in place of event.get
EventAfterPop(e) == [e EXCEPT !.event_title = Absent]

EventAfterGet(e) == e

RECURSIVE TypesInOrder(_)
TypesInOrder(evs) ==
    IF evs = <<>> THEN <<>>
    ELSE LET before == TypesInOrder(SubSeq(evs, 1, Len(evs) - 1))
             t == EventType(evs[Len(evs)])
         IN  IF \E i \in 1..Len(before) : before[i] = t THEN before
             ELSE before \o <<t>>

Group(evs, t) == SelectSeq(evs, LAMBDA e : EventType(e) = t)

HasGroup(evs, t) == \E i \in 1..Len(evs) : EventType(evs[i]) = t

\* the education label with an organization-only branch
EduLabelOrgToo(e) ==
    LET title == Get(e.event_title, "")
        org == Get(e.organization, "")
    IN  IF Truthy(title) /\ Truthy(org) THEN << <<title, " from ", org>> >>
        ELSE IF Truthy(title) THEN << <<title>> >>
        ELSE IF Truthy(org) THEN << <<org>> >>
        ELSE <<>>

EduLabel(e) ==
    LET title == Get(e.event_title, "")
        org == Get(e.organization, "")
    IN  IF Truthy(title) /\ Truthy(org) THEN << <<title, " from ", org>> >>
        ELSE IF Truthy(title) THEN << <<title>> >>
        ELSE <<>>

EduParts(evs) ==
    LET edu_events == Sorted(Group(evs, "education"))
    IN  Concat([i \in 1..Len(edu_events) |-> EduLabel(edu_events[i])])

EduSentence(evs) ==
    LET edu_parts == EduParts(evs)
    IN  IF ~HasGroup(evs, "education") \/ edu_parts = <<>> THEN <<>>
        ELSE IF Len(edu_parts) = 1
             THEN << <<"Studied ">> \o edu_parts[1] \o <<".">> >>
             ELSE << <<"Educational background includes ">>
                     \o Join(SubSeq(edu_parts, 1, Len(edu_parts) - 1), ", ")
                     \o <<" and ">> \o edu_parts[Len(edu_parts)] \o <<".">> >>

EmpLabel(e) ==
    LET title == Get(e.event_title, "")
        org == Get(e.organization, "")
    IN  IF Truthy(title) /\ Truthy(org) THEN << <<title, " at ", org>> >>
        ELSE IF Truthy(org) THEN << <<"worked at ", org>> >>
        ELSE IF Truthy(title) THEN << <<title>> >>
        ELSE <<>>

EmpParts(evs) ==
    LET emp_events == Sorted(Group(evs, "employment"))
    IN  Concat([i \in 1..Len(emp_events) |-> EmpLabel(emp_events[i])])

\* the remaining count taken one too large
OtherPositionsOffByOne(emp_parts) == Len(emp_parts) - 2

OtherPositions(emp_parts) == Len(emp_parts) - 3

EmpSentence(evs) ==
    LET emp_parts == EmpParts(evs)
    IN  IF ~HasGroup(evs, "employment") \/ emp_parts = <<>> THEN <<>>
        ELSE IF Len(emp_parts) <= 3
             THEN << <<"Career includes ">> \o Join(emp_parts, ", ") \o <<".">> >>
             ELSE << <<"Career includes ">> \o Join(SubSeq(emp_parts, 1, 3), ", ")
                     \o <<" and ", ToString(OtherPositions(emp_parts)), " other positions">>
                     \o <<".">> >>

AwardNames(award_events) ==
    LET named == SelectSeq(award_events, LAMBDA e : Truthy(Get(e.event_title, None)))
    IN  [i \in 1..Len(named) |-> <<Get(named[i].event_title, "")>>]

\* the count of the named awards in place of the count of the group
AwardSentenceCountsNamed(evs) ==
    LET award_events == Group(evs, "award")
    IN  IF ~HasGroup(evs, "award") THEN <<>>
        ELSE IF Len(award_events) <= 5
             THEN IF AwardNames(award_events) = <<>> THEN <<>>
                  ELSE << <<"Received awards: ">>
                          \o Join(AwardNames(award_events), ", ") \o <<".">> >>
             ELSE << <<"Received ", ToString(Len(AwardNames(award_events))),
                       " awards and honors.">> >>

AwardSentence(evs) ==
    LET award_events == Group(evs, "award")
    IN  IF ~HasGroup(evs, "award") THEN <<>>
        ELSE IF Len(award_events) <= 5
             THEN IF AwardNames(award_events) = <<>> THEN <<>>
                  ELSE << <<"Received awards: ">>
                          \o Join(AwardNames(award_events), ", ") \o <<".">> >>
             ELSE << <<"Received ", ToString(Len(award_events)), " awards and honors.">> >>

\* one sentence per event of a remaining type in place of one per type
OtherSentencesPerEvent(evs) ==
    LET others == SelectSeq(evs, LAMBDA e :
                      EventType(e) \notin {"education", "employment", "award"})
    IN  [i \in 1..Len(others) |->
            <<"Notable ", EventType(others[i]), " events: ", "1", ".">>]

OtherSentences(evs) ==
    LET types == SelectSeq(TypesInOrder(evs),
                           LAMBDA t : t \notin {"education", "employment", "award"})
    IN  [i \in 1..Len(types) |->
            <<"Notable ", types[i], " events: ",
              ToString(Len(Group(evs, types[i]))), ".">>]

\* the employment sentence placed before the education sentence
NarrativePartsCareerFirst(evs, nm, desc) ==
    Biography(nm, desc) \o EmpSentence(evs) \o EduSentence(evs)
    \o AwardSentence(evs) \o OtherSentences(evs)

NarrativeParts(evs, nm, desc) ==
    Biography(nm, desc) \o EduSentence(evs) \o EmpSentence(evs)
    \o AwardSentence(evs) \o OtherSentences(evs)

\* the fallback test left out
NeverFallback(narrative) == FALSE

\* the fallback test without its 'not'
NeedsFallbackInverted(narrative) == Strip(narrative) # <<>>

NeedsFallback(narrative) == Strip(narrative) = <<>>

Raises(evs) ==
    \/ HasGroup(evs, "education") /\ SortRaises(Group(evs, "education"))
    \/ HasGroup(evs, "employment") /\ SortRaises(Group(evs, "employment"))

create_narrative_from_events(evs, nm, desc) ==
    IF Raises(evs) THEN [outcome |-> "raised", narrative |-> <<>>]
    ELSE LET narrative == Join(NarrativeParts(evs, nm, desc), " ")
         IN  [outcome |-> "returned",
              narrative |-> IF NeedsFallback(narrative) THEN FallbackSentence
                            ELSE narrative]

----------------------------------------------------------------------------
(* load_reduction_models and project_to_3d *)

NoModel == "<None>"       \* pca_model / umap_model before any load

NoVector == [pca |-> NoModel, input |-> -1]
NoCoordinates == [umap |-> NoModel, pca |-> NoModel, input |-> -1]

PcaTransform(model, embedding) == [pca |-> model, input |-> embedding]

UmapTransform(model, reduced) ==
    [umap |-> model, pca |-> reduced.pca, input |-> reduced.input]

\* fit_transform in place of transform: the stage refits its model
ModelAfterFitTransform(model) == "refit"

ModelAfterTransform(model) == model

\* the flag set only when both models are given
LoadedFlagIfPresent(pca, umap) == pca # NoModel /\ umap # NoModel

LoadedFlagAfterLoad(pca, umap) == TRUE

\* the readiness check left out
ReadyCheckMissing(loaded) == TRUE

ReadyCheck(loaded) == loaded

Embeddings == {1, 2}

NothingProjected == [e \in Embeddings |-> [coordinates |-> NoCoordinates, again |-> FALSE]]

\* the record of what each embedding projected to, after a call that ran
\* without a load returns coordinates
Remember(first, embedding, coordinates) ==
    IF first[embedding].coordinates = NoCoordinates
    THEN [first EXCEPT ![embedding].coordinates = coordinates]
    ELSE [first EXCEPT ![embedding].again = TRUE]

load_reduction_models(pca, umap) ==
    /\ pca_model' = pca
    /\ umap_model' = umap
    /\ models_loaded' = LoadedFlagAfterLoad(pca, umap)
    /\ proj_first' = NothingProjected
    /\ load_since_begin' = TRUE
    /\ UNCHANGED <<synthVars, projVars, searchVars, extVars>>

ProjectBegin(embedding) ==
    /\ pc = "idle"
    /\ embedding_768d' = embedding
    /\ embedding_50d' = NoVector
    /\ stages' = <<>>
    /\ IF ~ReadyCheck(models_loaded)
       THEN /\ pc' = "idle"
            /\ proj' = [outcome |-> "ModelNotReady", coordinates |-> NoCoordinates]
       ELSE /\ pc' = "pca"
            /\ proj' = [outcome |-> "running", coordinates |-> NoCoordinates]
    /\ load_since_begin' = FALSE
    /\ UNCHANGED <<synthVars, modelVars, searchVars, proj_first, extVars>>

ProjectPca ==
    /\ pc = "pca"
    /\ IF pca_model = NoModel
       THEN /\ pc' = "idle"
            /\ proj' = [outcome |-> "AttributeError", coordinates |-> NoCoordinates]
            /\ UNCHANGED <<embedding_50d, stages, pca_model>>
       ELSE /\ pc' = "umap"
            /\ embedding_50d' = PcaTransform(pca_model, embedding_768d)
            /\ stages' = Append(stages, [stage |-> "pca", model |-> pca_model,
                                         arg |-> "embedding_768d"])
            /\ pca_model' = ModelAfterTransform(pca_model)
            /\ UNCHANGED proj
    /\ UNCHANGED <<synthVars, umap_model, models_loaded, embedding_768d, searchVars,
                   histVars, extVars>>

\* the UMAP stage given the raw embedding
UmapArgumentRaw(raw, reduced) ==
    [name |-> "embedding_768d", vector |-> [pca |-> NoModel, input |-> raw]]

\* self.umap_model.transform(embedding_50d)
UmapArgument(raw, reduced) == [name |-> "embedding_50d", vector |-> reduced]

ProjectUmap ==
    /\ pc = "umap"
    /\ pc' = "idle"
    /\ IF umap_model = NoModel
       THEN /\ proj' = [outcome |-> "AttributeError", coordinates |-> NoCoordinates]
            /\ UNCHANGED <<stages, umap_model, proj_first>>
       ELSE LET argument == UmapArgument(embedding_768d, embedding_50d)
            IN  /\ proj' = [outcome |-> "returned",
                            coordinates |-> UmapTransform(umap_model, argument.vector)]
                /\ proj_first' = IF load_since_begin THEN proj_first
                                  ELSE Remember(proj_first, embedding_768d,
                                                UmapTransform(umap_model, argument.vector))
                /\ stages' = Append(stages, [stage |-> "umap", model |-> umap_model,
                                             arg |-> argument.name])
                /\ umap_model' = ModelAfterTransform(umap_model)
    /\ UNCHANGED <<synthVars, pca_model, models_loaded, embedding_768d,
                   embedding_50d, searchVars, load_since_begin, extVars>>

----------------------------------------------------------------------------
(* find_nearest_cluster and find_similar_persons.  A distance is kept as   *)
(* its square: np.linalg.norm is monotone in it and 0 exactly when it is 0 *)

Inf == -1                 \* float('inf')

NoCluster == [cluster_id |-> -1, avg_coordinates |-> <<0, 0, 0>>]

DistFirstAxis(a, b) == (a[1] - b[1]) * (a[1] - b[1])

Dist2(a, b) ==
    (a[1] - b[1]) * (a[1] - b[1]) + (a[2] - b[2]) * (a[2] - b[2])
    + (a[3] - b[3]) * (a[3] - b[3])

LessOrEqual(d, min_distance) == min_distance = Inf \/ d <= min_distance

Less(d, min_distance) == min_distance = Inf \/ d < min_distance

RECURSIVE NearestScan(_, _, _, _)
NearestScan(point, clusters, min_distance, nearest_cluster) ==
    IF clusters = <<>> THEN nearest_cluster
    ELSE LET distance == Dist2(point, Head(clusters).avg_coordinates)
         IN  IF Less(distance, min_distance)
             THEN NearestScan(point, Tail(clusters), distance, Head(clusters))
             ELSE NearestScan(point, Tail(clusters), min_distance, nearest_cluster)

find_nearest_cluster(point, clusters) ==
    [op |-> "nearest", outcome |-> "returned",
     cluster |-> NearestScan(point, clusters, Inf, NoCluster), similar |-> <<>>]

Distances(point, coordinates) ==
    [i \in 1..Len(coordinates) |-> Dist2(coordinates[i], point)]

ArgsortAny(distances) ==
    {p \in [1..Len(distances) -> 1..Len(distances)] :
        \A i, j \in 1..Len(distances) : i # j => p[i] # p[j]}

\* np.argsort with the default (unstable) kind: any order of the rows that is
\* non-decreasing in distance
Argsort(distances) ==
    {p \in [1..Len(distances) -> 1..Len(distances)] :
        /\ \A i, j \in 1..Len(distances) : i # j => p[i] # p[j]
        /\ \A i \in 1..Len(distances) - 1 : distances[p[i]] <= distances[p[i + 1]]}

SliceThrough(seq, k) ==
    IF k + 1 >= 0 THEN SubSeq(seq, 1, IF k + 1 < Len(seq) THEN k + 1 ELSE Len(seq))
    ELSE SubSeq(seq, 1, IF Len(seq) + k + 1 > 0 THEN Len(seq) + k + 1 ELSE 0)

\* seq[:k]
SliceTo(seq, k) ==
    IF k >= 0 THEN SubSeq(seq, 1, IF k < Len(seq) THEN k ELSE Len(seq))
    ELSE SubSeq(seq, 1, IF Len(seq) + k > 0 THEN Len(seq) + k ELSE 0)

\* all_coordinates is the (N x 3) matrix of the docstring, N >= 0
find_similar_persons(point, person_ids, coordinates, k, order) ==
    LET distances == Distances(point, coordinates)
        top_k_indices == SliceTo(order, k)
    IN  IF \E n \in 1..Len(top_k_indices) : top_k_indices[n] > Len(person_ids)
        THEN \* all_person_ids[i] beyond the end of the list
             [op |-> "similar", outcome |-> "IndexError",
              cluster |-> NoCluster, similar |-> <<>>]
        ELSE [op |-> "similar", outcome |-> "returned", cluster |-> NoCluster,
              similar |-> [n \in 1..Len(top_k_indices) |->
                  <<person_ids[top_k_indices[n]], distances[top_k_indices[n]]>>]]

FindNearestCluster ==
    /\ found' = find_nearest_cluster(search.coordinates_3d, search.clusters_info)
    /\ UNCHANGED <<synthVars, modelVars, projVars, search, histVars, extVars>>

FindSimilarPersons ==
    /\ \E order \in Argsort(Distances(search.coordinates_3d, search.all_coordinates)) :
          found' = find_similar_persons(search.coordinates_3d, search.all_person_ids,
                                        search.all_coordinates, search.top_k, order)
    /\ UNCHANGED <<synthVars, modelVars, projVars, search, histVars, extVars>>

----------------------------------------------------------------------------
(* generate_embedding, of the service and of the batch generator.  A text  *)
(* is kept as its length; the provider answers a call with one vector per  *)
(* text sent or with an error.                                             *)

MaxChars == 10000

Texts == {5, MaxChars + 1}

ProviderErrors == {"ResourceExhausted", "ServiceUnavailable"}

ProviderResponses == {"vectors"} \cup ProviderErrors

\* what the provider does on each of the next calls made to it
ProviderFutures == [1..2 -> ProviderResponses]

\* embeddings[0].values for the text sent
Values(text) == [embedding_of |-> text]

NoValues == [embedding_of |-> -1]

NoError == "<none>"

\* text[:10000] when len(text) > 10000
Truncate(text) == IF text > MaxChars THEN MaxChars ELSE text

\* the provider called again after an error
generate_embedding_retry(text, provider) ==
    IF provider[1] = "vectors"
    THEN [fn |-> "service", text |-> text, calls |-> <<text>>, provider |-> provider[1],
          outcome |-> "returned", values |-> Values(text), error |-> NoError]
    ELSE IF provider[2] = "vectors"
    THEN [fn |-> "service", text |-> text, calls |-> <<text, text>>,
          provider |-> provider[1],
          outcome |-> "returned", values |-> Values(text), error |-> NoError]
    ELSE [fn |-> "service", text |-> text, calls |-> <<text, text>>,
          provider |-> provider[1],
          outcome |-> "raised", values |-> NoValues, error |-> provider[2]]

\* EmbeddingService.generate_embedding: no try, one get_embeddings call
generate_embedding(text, provider) ==
    IF provider[1] = "vectors"
    THEN [fn |-> "service", text |-> text, calls |-> <<text>>, provider |-> provider[1],
          outcome |-> "returned", values |-> Values(text), error |-> NoError]
    ELSE [fn |-> "service", text |-> text, calls |-> <<text>>, provider |-> provider[1],
          outcome |-> "raised", values |-> NoValues, error |-> provider[1]]

\* EmbeddingGenerator.generate_embedding: truncation, one get_embeddings
\* call, the error logged and re-raised
generator_generate_embedding(text, provider) ==
    IF provider[1] = "vectors"
    THEN [fn |-> "generator", text |-> text, calls |-> <<Truncate(text)>>,
          provider |-> provider[1],
          outcome |-> "returned", values |-> Values(Truncate(text)), error |-> NoError]
    ELSE [fn |-> "generator", text |-> text, calls |-> <<Truncate(text)>>,
          provider |-> provider[1],
          outcome |-> "raised", values |-> NoValues, error |-> provider[1]]

GenerateEmbedding ==
    /\ Len(embed_log) < MaxEmbedCalls
    /\ \E text \in Texts, provider \in ProviderFutures :
          embed_log' = Append(embed_log, generate_embedding(text, provider))
    /\ UNCHANGED <<synthVars, modelVars, projVars, searchVars, histVars, job, reqs>>

GeneratorGenerateEmbedding ==
    /\ Len(embed_log) < MaxEmbedCalls
    /\ \E text \in Texts, provider \in ProviderFutures :
          embed_log' = Append(embed_log, generator_generate_embedding(text, provider))
    /\ UNCHANGED <<synthVars, modelVars, projVars, searchVars, histVars, job, reqs>>

NoRequests == <<>>

NoResult == [outcome |-> "none"]

\* a request as it arrives: the operation called and its argument (the
\* embedding of a projection, the point of a search, the description of a
\* synthesis)
Request(kind, embedding, point, desc) ==
    [kind |-> kind, embedding_768d |-> embedding, coordinates_3d |-> point,
     description |-> desc, pc |-> "new", embedding_50d |-> NoVector,
     result |-> NoResult]

\* a request begins: project_to_3d runs its readiness check, the other
\* operations run to their return
ReqBegin(r) ==
    /\ reqs[r].pc = "new"
    /\ \/ /\ reqs[r].kind = "project"
          /\ reqs' = [reqs EXCEPT ![r] =
                IF ReadyCheck(models_loaded) THEN [@ EXCEPT !.pc = "pca"]
                ELSE [@ EXCEPT !.pc = "done",
                               !.result = [outcome |-> "ModelNotReady",
                                           coordinates |-> NoCoordinates]]]
          /\ UNCHANGED events
       \/ /\ reqs[r].kind = "nearest"
          /\ reqs' = [reqs EXCEPT ![r].pc = "done",
                ![r].result = find_nearest_cluster(reqs[r].coordinates_3d,
                                                     search.clusters_info)]
          /\ UNCHANGED events
       \/ /\ reqs[r].kind = "top_k"
          /\ \E order \in Argsort(Distances(reqs[r].coordinates_3d,
                                              search.all_coordinates)) :
                reqs' = [reqs EXCEPT ![r].pc = "done",
                    ![r].result = find_similar_persons(reqs[r].coordinates_3d,
                                      search.all_person_ids,
                                      search.all_coordinates, search.top_k, order)]
          /\ UNCHANGED events
       \/ /\ reqs[r].kind = "synthesize"
          /\ reqs' = [reqs EXCEPT ![r].pc = "done",
                ![r].result = create_narrative_from_events(events, name,
                                                             reqs[r].description)]
          /\ events' = [i \in 1..Len(events) |-> EventAfterGet(events[i])]
    /\ UNCHANGED <<name, description, synth, synth_log, modelVars, projVars, searchVars,
                   histVars, embed_log, job>>

ReqPca(r) ==
    /\ reqs[r].pc = "pca"
    /\ pca_model # NoModel
    /\ reqs' = [reqs EXCEPT ![r].pc = "umap",
                            ![r].embedding_50d = PcaTransform(pca_model,
                                                                  reqs[r].embedding_768d)]
    /\ pca_model' = ModelAfterTransform(pca_model)
    /\ UNCHANGED <<synthVars, umap_model, models_loaded, projVars, searchVars, histVars,
                   embed_log, job>>

ReqUmap(r) ==
    /\ reqs[r].pc = "umap"
    /\ umap_model # NoModel
    /\ reqs' = [reqs EXCEPT ![r].pc = "done",
          ![r].result = [outcome |-> "returned",
              coordinates |-> UmapTransform(umap_model,
                  UmapArgument(reqs[r].embedding_768d,
                               reqs[r].embedding_50d).vector)]]
    /\ umap_model' = ModelAfterTransform(umap_model)
    /\ UNCHANGED <<synthVars, pca_model, models_loaded, projVars, searchVars, histVars,
                   embed_log, job>>

----------------------------------------------------------------------------
(* process_and_embed_all: the loop over the batches, one step per provider *)
(* call, per pause and for the save after the loop.  A person is kept as   *)
(* its index in person_data.                                               *)

NoJob == [pc |-> "none"]

BatchSizes == {1, 2}

\* person_data[i:i+batch_size], i counted from 0
Batch(i, batch_size, n) ==
    [k \in 1..(IF batch_size < n - i THEN batch_size ELSE n - i) |-> i + k]

StartJob(n, batch_size) ==
    [pc |-> "loop", n |-> n, batch_size |-> batch_size, i |-> 0,
     embedding_records |-> <<>>, total_api_calls |-> 0, trace |-> <<>>]

\* the failed batch taken again
IndexAfterRetry(i, batch_size) == i

\* 'continue' in the except clause: the for loop moves to the next batch
IndexAfterFailure(i, batch_size) == i + batch_size

\* the try body up to the pause, or the except clause
BatchCall ==
    /\ job.pc = "loop"
    /\ job.i < job.n
    /\ \E response \in ProviderResponses :
          LET batch == Batch(job.i, job.batch_size, job.n)
              call == [op |-> "call", i |-> job.i, texts |-> batch, response |-> response]
          IN  IF response = "vectors"
              THEN job' = [job EXCEPT !.pc = "sleep",
                                      !.embedding_records = @ \o batch,
                                      !.total_api_calls = @ + 1,
                                      !.trace = Append(@, call)]
              ELSE job' = [job EXCEPT !.i = IndexAfterFailure(job.i, job.batch_size),
                                      !.trace = Append(@, call)]
    /\ UNCHANGED <<synthVars, modelVars, projVars, searchVars, histVars, embed_log, reqs>>

\* time.sleep(0.5) at the end of the try body
BatchSleep ==
    /\ job.pc = "sleep"
    /\ job' = [job EXCEPT !.pc = "loop",
                           !.i = job.i + job.batch_size,
                           !.trace = Append(@, [op |-> "sleep"])]
    /\ UNCHANGED <<synthVars, modelVars, projVars, searchVars, histVars, embed_log, reqs>>

\* after the loop: _save_embeddings_locally, which may fail, and the return
BatchEnd ==
    /\ job.pc = "loop"
    /\ job.i >= job.n
    /\ \E saved \in BOOLEAN :
          job' = [job EXCEPT !.pc = IF saved THEN "returned" ELSE "raised"]
    /\ UNCHANGED <<synthVars, modelVars, projVars, searchVars, histVars, embed_log, reqs>>

----------------------------------------------------------------------------
(* The synthesis call on the pending input *)

Synthesize ==
    LET r == create_narrative_from_events(events, name, description)
    IN  /\ Len(synth_log) < MaxSynthCalls
        /\ synth' = r
        /\ synth_log' = Append(synth_log, [outcome |-> r.outcome,
                                            narrative |-> r.narrative,
                                            models_loaded |-> models_loaded])
        /\ events' = [i \in 1..Len(events) |-> EventAfterGet(events[i])]
        /\ UNCHANGED <<name, description, modelVars, projVars, searchVars, histVars,
                       extVars>>

----------------------------------------------------------------------------
(* Inputs *)

SeqsUpTo(S, n) == UNION {[1..m -> S] : m \in 0..n}

Event(type, title, org, date) ==
    [event_type |-> type, event_title |-> title, organization |-> org,
     start_date |-> date]

Names == {None, "", "Ada"}
Descriptions == {None, "a mathematician"}

\* events of every type, with and without title, organization and date (the
\* events that name an organization are the dated ones)
MixedEvents ==
    {Event(t, ti, o, IF o = Absent THEN NoDate ELSE 1) :
        t \in {Absent, "education", "employment", "award"},
        ti \in {Absent, "PhD"}, o \in {Absent, "MIT"}}

Dates == {NoDate, DateMin, 1}

\* one event of each named group and events of three other types, one of
\* them by the default of event.get('event_type', 'other')
OrderEvents ==
    {Event("education", "Mathematics", "Cambridge", 1),
     Event("employment", "Engineer", "IBM", 1),
     Event("award", "Medal", Absent, NoDate),
     Event("travel", "Trip", Absent, NoDate),
     Event("residence", "Home", Absent, NoDate),
     Event(Absent, "Misc", Absent, NoDate)}

\* awards with and without a title, and one event outside the group
AwardEvents ==
    {Event("award", "Nobel", Absent, NoDate),
     Event("award", "Turing", Absent, NoDate),
     Event("award", Absent, Absent, NoDate),
     Event("travel", "Trip", Absent, NoDate)}

OrderBiographies == {<<None, None>>, <<"Ada", None>>, <<None, "a poet">>}

EduEvents ==
    {Event("education", ti, o, d) : ti \in {Absent, "PhD"},
                                    o \in {None, "MIT"}, d \in Dates}

EmpEvents ==
    {Event("employment", ti, o, d) : ti \in {"", "Engineer"},
                                     o \in {Absent, "Google"},
                                     d \in {NoDate, 1}}

SvcEvents ==
    {Event(Absent, "Trip", Absent, NoDate), Event("education", "PhD", "MIT", 1)}

Loads == {<<"pca1", "umap1">>, <<"pca2", "umap2">>,
          <<NoModel, "umap1">>, <<"pca1", NoModel>>}

SvcClusters ==
    << [cluster_id |-> 0, avg_coordinates |-> <<0, 0, 0>>],
       [cluster_id |-> 1, avg_coordinates |-> <<2, 0, 0>>] >>

SvcSearches ==
    {[coordinates_3d |-> p, clusters_info |-> SvcClusters,
      all_person_ids |-> <<"Q1", "Q2">>,
      all_coordinates |-> << <<0, 0, 0>>, <<2, 0, 0>> >>, top_k |-> k] :
        p \in {<<1, 0, 0>>}, k \in {1}}

NoSearch ==
    [coordinates_3d |-> <<0, 0, 0>>, clusters_info |-> <<>>,
     all_person_ids |-> <<>>, all_coordinates |-> <<>>, top_k |-> 0]

\* cluster descriptors as get_clusters_info lists them: ordered by cluster_id,
\* every cluster_id once, centroids not necessarily distinct
Centroids == {<<0, 0, 0>>, <<2, 0, 0>>, <<0, 2, 0>>}

QueryPoints == {<<0, 0, 0>>, <<1, 0, 0>>, <<2, 0, 0>>}

ClusterLists ==
    UNION {{[i \in 1..n |-> [cluster_id |-> i - 1, avg_coordinates |-> c[i]]] :
               c \in [1..n -> Centroids]} : n \in 0..MaxClusters}

NearestSearches ==
    {[coordinates_3d |-> p, clusters_info |-> cs,
      all_person_ids |-> <<>>, all_coordinates |-> <<>>, top_k |-> 0] :
        p \in QueryPoints, cs \in ClusterLists}

\* the corpus as get_all_coordinates lists it: one row per person, ordered
\* by person_id, rows not necessarily distinct
CorpusRows == {<<0, 0, 0>>, <<2, 0, 0>>, <<0, 2, 0>>}

PersonIds(n) == [i \in 1..n |-> ToString(i)]

\* the index relation kept (equal lengths) or broken by one id
IdLists(n) == {PersonIds(m) : m \in {n - 1, n, n + 1} \cap Nat}

TopKs == (0 - 2)..(MaxCorpus + 5)

TopKSearches ==
    UNION {{[coordinates_3d |-> p, clusters_info |-> <<>>,
             all_person_ids |-> ids, all_coordinates |-> rows, top_k |-> k] :
               p \in QueryPoints, ids \in IdLists(Len(rows)), k \in TopKs} :
           rows \in SeqsUpTo(CorpusRows, MaxCorpus)}

NotFound == [op |-> "none", outcome |-> "none", cluster |-> NoCluster, similar |-> <<>>]

----------------------------------------------------------------------------
(* Specifications *)

InitService ==
    /\ synth = [outcome |-> "none", narrative |-> <<>>]
    /\ synth_log = <<>>
    /\ pca_model = NoModel
    /\ umap_model = NoModel
    /\ models_loaded = FALSE
    /\ pc = "idle"
    /\ embedding_768d = 0
    /\ embedding_50d = NoVector
    /\ stages = <<>>
    /\ proj = [outcome |-> "none", coordinates |-> NoCoordinates]
    /\ found = NotFound
    /\ proj_first = NothingProjected
    /\ load_since_begin = FALSE
    /\ embed_log = <<>>
    /\ job = NoJob
    /\ reqs = NoRequests

Init ==
    /\ name = "Ada"
    /\ description = None
    /\ events \in SeqsUpTo(SvcEvents, MaxSvcEvents)
    /\ search \in SvcSearches
    /\ InitService

Next ==
    \/ \E l \in Loads : load_reduction_models(l[1], l[2])
    \/ \E e \in Embeddings : ProjectBegin(e)
    \/ ProjectPca
    \/ ProjectUmap
    \/ Synthesize
    \/ FindNearestCluster
    \/ FindSimilarPersons

Spec == Init /\ [][Next]_vars

InitSynth ==
    /\ name \in Names
    /\ description \in Descriptions
    /\ events \in SeqsUpTo(MixedEvents, MaxEvents)
    /\ search = NoSearch
    /\ InitService

InitEdu ==
    /\ name = ""
    /\ description = None
    /\ events \in SeqsUpTo(EduEvents, MaxEdu)
    /\ search = NoSearch
    /\ InitService

InitEmp ==
    /\ name = None
    /\ description = None
    /\ events \in SeqsUpTo(EmpEvents, MaxEmp)
    /\ search = NoSearch
    /\ InitService

NextSynth == Synthesize

SpecSynth == InitSynth /\ [][NextSynth]_vars

SpecEdu == InitEdu /\ [][NextSynth]_vars

InitNearest ==
    /\ name = None
    /\ description = None
    /\ events = <<>>
    /\ search \in NearestSearches
    /\ InitService

NextNearest == FindNearestCluster

SpecNearest == InitNearest /\ [][NextNearest]_vars

InitTopK ==
    /\ name = None
    /\ description = None
    /\ events = <<>>
    /\ search \in TopKSearches
    /\ InitService

NextTopK == FindSimilarPersons

SpecTopK == InitTopK /\ [][NextTopK]_vars

InitIdle ==
    /\ name = None
    /\ description = None
    /\ events = <<>>
    /\ search = NoSearch
    /\ InitService

NextEmbed ==
    \/ GenerateEmbedding
    \/ GeneratorGenerateEmbedding

SpecEmbed == InitIdle /\ [][NextEmbed]_vars

InitOrder ==
    /\ \E bio \in OrderBiographies : name = bio[1] /\ description = bio[2]
    /\ events \in SeqsUpTo(OrderEvents, MaxOrder)
    /\ search = NoSearch
    /\ InitService

SpecOrder == InitOrder /\ [][NextSynth]_vars

InitAward ==
    /\ name = None
    /\ description = None
    /\ events \in SeqsUpTo(AwardEvents, MaxAward)
    /\ search = NoSearch
    /\ InitService

SpecAward == InitAward /\ [][NextSynth]_vars

InitBatch ==
    /\ name = None
    /\ description = None
    /\ events = <<>>
    /\ search = NoSearch
    /\ synth = [outcome |-> "none", narrative |-> <<>>]
    /\ synth_log = <<>>
    /\ pca_model = NoModel
    /\ umap_model = NoModel
    /\ models_loaded = FALSE
    /\ pc = "idle"
    /\ embedding_768d = 0
    /\ embedding_50d = NoVector
    /\ stages = <<>>
    /\ proj = [outcome |-> "none", coordinates |-> NoCoordinates]
    /\ found = NotFound
    /\ proj_first = NothingProjected
    /\ load_since_begin = FALSE
    /\ embed_log = <<>>
    /\ reqs = NoRequests
    /\ \E n \in 0..MaxPersons, batch_size \in BatchSizes : job = StartJob(n, batch_size)

NextBatch ==
    \/ BatchCall
    \/ BatchSleep
    \/ BatchEnd

\* the job is one sequential loop: a step that can be taken is taken
SpecBatch == InitBatch /\ [][NextBatch]_vars /\ WF_vars(NextBatch)

\* the requests that may arrive
Requests ==
    {Request("project", e, <<0, 0, 0>>, None) : e \in Embeddings}
    \cup {Request("nearest", 0, p, None) : p \in {<<0, 0, 0>>, <<1, 0, 0>>}}
    \cup {Request("top_k", 0, p, None) : p \in {<<0, 0, 0>>, <<1, 0, 0>>}}
    \cup {Request("synthesize", 0, <<0, 0, 0>>, d) : d \in {None, "a poet"}}

\* the service after load_reduction_models(pca1, umap1), with its cluster set
\* and corpus index, and the requests about to run
InitConc ==
    /\ name = "Ada"
    /\ description = None
    /\ events \in SeqsUpTo(SvcEvents, 1)
    /\ search \in SvcSearches
    /\ synth = [outcome |-> "none", narrative |-> <<>>]
    /\ synth_log = <<>>
    /\ pca_model = "pca1"
    /\ umap_model = "umap1"
    /\ models_loaded = TRUE
    /\ pc = "idle"
    /\ embedding_768d = 0
    /\ embedding_50d = NoVector
    /\ stages = <<>>
    /\ proj = [outcome |-> "none", coordinates |-> NoCoordinates]
    /\ found = NotFound
    /\ proj_first = NothingProjected
    /\ load_since_begin = FALSE
    /\ embed_log = <<>>
    /\ job = NoJob
    /\ reqs \in [1..MaxRequests -> Requests]

NextConc ==
    \E r \in 1..MaxRequests :
        \/ ReqBegin(r)
        \/ ReqPca(r)
        \/ ReqUmap(r)

SpecConc == InitConc /\ [][NextConc]_vars

SpecEmp == InitEmp /\ [][NextSynth]_vars

----------------------------------------------------------------------------
(* Helpers of the properties *)

Contains(text, sub) ==
    \E i \in 0..(Len(text) - Len(sub)) : SubSeq(text, i + 1, i + Len(sub)) = sub

Count(text, tokens) == Cardinality({i \in 1..Len(text) : text[i] \in tokens})

Returned == synth.outcome = "returned"

IsEmptyText(text) == \A i \in 1..Len(text) : text[i] = ""

----------------------------------------------------------------------------
(* Narrative synthesis *)

\* C1: create_narrative_from_events is total: whatever the name, description
\* and events (with or without start_date, title, organization, type), every
\* call returns a narrative and none raises.
C1_SynthesisIsTotal ==
    /\ synth.outcome \in {"none", "returned"}
    /\ \A i \in 1..Len(synth_log) : synth_log[i].outcome = "returned"
    /\ Len(synth_log) > 0 => synth.narrative \in Seq(STRING)

C1_Witness ==
    /\ Returned
    /\ \E i, j \in 1..Len(events) :
          /\ EventType(events[i]) = EventType(events[j])
          /\ EventType(events[i]) \in {"education", "employment"}
          /\ events[i].start_date = NoDate
          /\ events[j].start_date # NoDate
          /\ events[i].event_title = Absent

\* C2: the returned narrative is never the empty string, also for an empty
\* event list and for events from which no sentence can be built.
C2_NarrativeNonEmpty ==
    Returned => ~IsEmptyText(synth.narrative)

C2_Witness ==
    /\ Returned
    /\ Len(events) > 0
    /\ NarrativeParts(events, name, description) = <<>>

\* C3: with no events and neither name nor description the result is exactly
\* the fallback sentence, and the result is the fallback sentence exactly when
\* no sentence was emitted.
C3_FallbackIffNoSentence ==
    Returned =>
        /\ (events = <<>> /\ ~Truthy(name) /\ ~Truthy(description))
              => synth.narrative = FallbackSentence
        /\ (synth.narrative = FallbackSentence)
              <=> (NarrativeParts(events, name, description) = <<>>)

C3_Witness ==
    /\ Returned
    /\ events = <<>>
    /\ name = None
    /\ description = None
    /\ synth.narrative = FallbackSentence

\* C4: synthesis is pure: all calls on the same input return the same
\* narrative whatever happened in between, and a call changes neither the
\* input nor the state of the service.
C4_SynthesisIsPure ==
    /\ [](\A i, j \in 1..Len(synth_log) :
            synth_log[i].narrative = synth_log[j].narrative)
    /\ [][/\ events' = events /\ name' = name /\ description' = description
          /\ synth_log' # synth_log
                => UNCHANGED <<modelVars, projVars, searchVars>>]_vars

C4_Witness ==
    /\ Len(synth_log) = 2
    /\ ~synth_log[1].models_loaded
    /\ synth_log[2].models_loaded
    /\ synth_log[1].narrative # FallbackSentence
    /\ \E i \in 1..Len(events) : events[i].event_type = Absent

\* The order the properties speak of: ascending start_date, an event without
\* one counting as the earliest possible date, equal dates in input order.
DateOf(e) == IF e.start_date = NoDate THEN DateMin ELSE e.start_date

Rank(group, i) ==
    1 + Cardinality({j \in 1..Len(group) :
                        \/ DateOf(group[j]) < DateOf(group[i])
                        \/ DateOf(group[j]) = DateOf(group[i]) /\ j < i})

InDateOrder(group) ==
    [r \in 1..Len(group) |-> group[CHOOSE i \in 1..Len(group) : Rank(group, i) = r]]

HasTitle(e) == Truthy(Get(e.event_title, ""))
HasOrg(e) == Truthy(Get(e.organization, ""))

EmpLabelled(evs) ==
    SelectSeq(InDateOrder(Group(evs, "employment")), LAMBDA e : HasTitle(e) \/ HasOrg(e))

\* C5 as stated: an employment group of n > 3 events gives the first three
\* labels and "and K other positions" with K = n - 3.
C5_AsStated ==
    Returned =>
        LET group == InDateOrder(Group(events, "employment"))
            n == Len(group)
        IN  n > 3 =>
              Contains(synth.narrative,
                       Join([i \in 1..3 |-> Concat(EmpLabel(group[i]))], ", ")
                       \o <<" and ", ToString(n - 3), " other positions">>)

\* C5: when the employment group has n > 3 events that carry a title or an
\* organization, the narrative holds the labels of the first three of them in
\* ascending start_date order, then "and K other positions" with K = n - 3;
\* events with neither are skipped and not counted.
C5_OtherPositionsCountLabelled ==
    Returned =>
        LET labelled == EmpLabelled(events)
            n == Len(labelled)
        IN  n > 3 =>
              Contains(synth.narrative,
                       <<"Career includes ">>
                       \o Join([i \in 1..3 |-> EmpLabel(labelled[i])[1]], ", ")
                       \o <<" and ", ToString(n - 3), " other positions", ".">>)

C5_Witness ==
    /\ Returned
    /\ Len(EmpLabelled(events)) = 4
    /\ Contains(synth.narrative, <<" and ", "1", " other positions">>)
    /\ events[1].start_date = 1
    /\ events[2].start_date = NoDate
    /\ EmpLabel(events[1]) # EmpLabel(events[2])

EduGroup == Group(events, "education")

\* C6 as stated: every education event contributes a label, the organization
\* alone when only the organization is present.
C6_AsStated ==
    Returned =>
        /\ \A i \in 1..Len(EduGroup) : HasTitle(EduGroup[i]) =>
              Count(synth.narrative, {EduGroup[i].event_title})
                = Cardinality({j \in 1..Len(EduGroup) :
                                  EduGroup[j].event_title = EduGroup[i].event_title})
        /\ \A i \in 1..Len(EduGroup) : HasOrg(EduGroup[i]) =>
              Count(synth.narrative, {EduGroup[i].organization})
                = Cardinality({j \in 1..Len(EduGroup) :
                                  EduGroup[j].organization = EduGroup[i].organization})

\* C6: an education event contributes a label exactly when it has a title:
\* "{title} from {organization}" with both, the title alone without an
\* organization; an event with only an organization contributes nothing.
C6_EducationLabelNeedsTitle ==
    Returned =>
        /\ \A i \in 1..Len(EduGroup) : HasTitle(EduGroup[i]) =>
              Count(synth.narrative, {EduGroup[i].event_title})
                = Cardinality({j \in 1..Len(EduGroup) :
                                  EduGroup[j].event_title = EduGroup[i].event_title})
        /\ \A i \in 1..Len(EduGroup) : HasOrg(EduGroup[i]) =>
              /\ Count(synth.narrative, {EduGroup[i].organization})
                   = Cardinality({j \in 1..Len(EduGroup) :
                                     /\ HasTitle(EduGroup[j])
                                     /\ EduGroup[j].organization = EduGroup[i].organization})
              /\ HasTitle(EduGroup[i]) =>
                   Contains(synth.narrative,
                            <<EduGroup[i].event_title, " from ", EduGroup[i].organization>>)
        /\ Count(synth.narrative, {" from "})
             = Cardinality({j \in 1..Len(EduGroup) :
                               HasTitle(EduGroup[j]) /\ HasOrg(EduGroup[j])})

C6_Witness ==
    /\ Returned
    /\ \E i, j, k \in 1..Len(EduGroup) :
          /\ HasTitle(EduGroup[i]) /\ HasOrg(EduGroup[i])
          /\ HasTitle(EduGroup[j]) /\ ~HasOrg(EduGroup[j])
          /\ ~HasTitle(EduGroup[k]) /\ HasOrg(EduGroup[k])
    /\ Count(synth.narrative, {"MIT"}) = 1

EduLabels ==
    LET labelled == SelectSeq(InDateOrder(EduGroup), LAMBDA e : EduLabel(e) # <<>>)
    IN  [i \in 1..Len(labelled) |-> EduLabel(labelled[i])[1]]

----------------------------------------------------------------------------
(* Reduction pipeline *)

\* C8: a project_to_3d call made while the models are not loaded fails with
\* ModelNotReady: no stage is applied, no coordinate is returned and the
\* load state stays as it was.
C8_ProjectBeforeLoadFails ==
    [][(pc = "idle" /\ ~models_loaded /\ projVars' # projVars) =>
          /\ proj'.outcome = "ModelNotReady"
          /\ proj'.coordinates = NoCoordinates
          /\ stages' = <<>>
          /\ pc' = "idle"
          /\ UNCHANGED modelVars]_vars

C8_Witness ==
    /\ proj.outcome = "ModelNotReady"
    /\ embedding_768d \in Embeddings
    /\ ~models_loaded
    /\ stages = <<>>

\* C9: the load flag starts unloaded and, once set, is never cleared by any
\* load, projection, synthesis or search.
C9_LoadFlagMonotonic ==
    /\ ~models_loaded
    /\ [][models_loaded => models_loaded']_vars

C9_Witness ==
    /\ models_loaded
    /\ pca_model = NoModel
    /\ proj.outcome = "AttributeError"
    /\ Len(synth_log) > 0
    /\ found.op = "similar"

\* C10 as stated: once loaded, the two handles never change again, not even
\* by a further load_reduction_models call.
C10_AsStated ==
    [][models_loaded => UNCHANGED <<pca_model, umap_model>>]_vars

\* C10: the handles change only in a load_reduction_models call, which sets
\* both to its arguments (a further call replaces them); projection,
\* synthesis and the searches never replace or mutate them.
C10_HandlesChangeOnlyOnLoad ==
    [][<<pca_model, umap_model>>' # <<pca_model, umap_model>> =>
          /\ <<pca_model', umap_model'>> \in Loads
          /\ models_loaded'
          /\ UNCHANGED <<synthVars, projVars, searchVars>>]_vars

C10_Witness ==
    /\ models_loaded
    /\ pca_model = "pca2"
    /\ umap_model = "umap2"
    /\ proj.outcome = "returned"
    /\ proj.coordinates.pca = "pca1"
    /\ proj.coordinates.umap = "umap1"
    /\ pc = "idle"

\* C11: while no load intervenes, a project_to_3d call that returns gives, for
\* its embedding, the coordinates the first such call gave for that embedding,
\* whatever projections, searches and syntheses ran in between.
C11_ProjectIsDeterministic ==
    (proj.outcome = "returned" /\ pc = "idle" /\ ~load_since_begin) =>
        /\ models_loaded
        /\ proj.coordinates # NoCoordinates
        /\ proj.coordinates = proj_first[embedding_768d].coordinates

C11_Witness ==
    /\ proj.outcome = "returned"
    /\ pc = "idle"
    /\ ~load_since_begin
    /\ embedding_768d = 1
    /\ proj_first[1].again
    /\ proj_first[2].coordinates # NoCoordinates
    /\ Len(synth_log) > 0
    /\ found.op # "none"

\* C12: on a non-empty cluster sequence find_nearest_cluster returns a
\* descriptor of the sequence at minimum distance from the point, and of the
\* descriptors at that minimum the one that comes first.
C12_NearestIsFirstMinimum ==
    (found.op = "nearest" /\ search.clusters_info # <<>>) =>
        /\ found.outcome = "returned"
        /\ \E i \in 1..Len(search.clusters_info) :
              /\ found.cluster = search.clusters_info[i]
              /\ \A j \in 1..Len(search.clusters_info) :
                    Dist2(search.coordinates_3d, search.clusters_info[i].avg_coordinates)
                      <= Dist2(search.coordinates_3d, search.clusters_info[j].avg_coordinates)
              /\ \A j \in 1..(i - 1) :
                    Dist2(search.coordinates_3d, search.clusters_info[i].avg_coordinates)
                      < Dist2(search.coordinates_3d, search.clusters_info[j].avg_coordinates)

\* the first descriptor is farther than the second and third, which tie
C12_Witness ==
    /\ found.op = "nearest"
    /\ Len(search.clusters_info) = 3
    /\ search.clusters_info[2].avg_coordinates # search.clusters_info[3].avg_coordinates
    /\ Dist2(search.coordinates_3d, search.clusters_info[2].avg_coordinates)
         = Dist2(search.coordinates_3d, search.clusters_info[3].avg_coordinates)
    /\ Dist2(search.coordinates_3d, search.clusters_info[1].avg_coordinates)
         > Dist2(search.coordinates_3d, search.clusters_info[2].avg_coordinates)
    /\ found.cluster = search.clusters_info[2]

\* C13 as stated: with the point at the centroid of any descriptor d of the
\* sequence (cluster_ids unique), the descriptor returned is d.
C13_AsStated ==
    found.op = "nearest" =>
        \A i \in 1..Len(search.clusters_info) :
            search.clusters_info[i].avg_coordinates = search.coordinates_3d =>
                found.cluster = search.clusters_info[i]

\* C13: with the point at the centroid of a descriptor d, the descriptor
\* returned is at distance 0 and has d's centroid; it is d when no earlier
\* descriptor of the sequence has the same centroid.
C13_CentroidFindsFirstAtDistanceZero ==
    found.op = "nearest" =>
        \A i \in 1..Len(search.clusters_info) :
            search.clusters_info[i].avg_coordinates = search.coordinates_3d =>
                /\ found.outcome = "returned"
                /\ Dist2(search.coordinates_3d, found.cluster.avg_coordinates) = 0
                /\ \E j \in 1..i : found.cluster = search.clusters_info[j]
                /\ (\A j \in 1..(i - 1) :
                        search.clusters_info[j].avg_coordinates # search.coordinates_3d)
                      => found.cluster = search.clusters_info[i]

\* the point is the centroid of the third descriptor only
C13_Witness ==
    /\ found.op = "nearest"
    /\ Len(search.clusters_info) = 3
    /\ search.clusters_info[3].avg_coordinates = search.coordinates_3d
    /\ search.clusters_info[1].avg_coordinates # search.coordinates_3d
    /\ search.clusters_info[2].avg_coordinates # search.coordinates_3d
    /\ found.cluster = search.clusters_info[3]
    /\ found.cluster.cluster_id = 2

\* C14: find_nearest_cluster on an empty cluster sequence does not complete
\* normally with a result value.
C14_EmptyClustersIsError ==
    (found.op = "nearest" /\ search.clusters_info = <<>>) =>
        found.outcome # "returned"

----------------------------------------------------------------------------
(* find_similar_persons: the corpus index of the last search *)

CorpusSize == Len(search.all_coordinates)

\* person_ids[i] corresponds to coordinates[i]: equal lengths
WellFormedIndex == Len(search.all_person_ids) = Len(search.all_coordinates)

RowDistance(i) == Dist2(search.all_coordinates[i], search.coordinates_3d)

Min(a, b) == IF a < b THEN a ELSE b

\* the row a returned entry came from (person ids are distinct)
RowOf(entry) == CHOOSE i \in 1..Len(search.all_person_ids) :
                    search.all_person_ids[i] = entry[1]

Searched == found.op = "similar"

\* C15: on a well-formed index of N rows, for k among 0, 1, N and N+5, the
\* search returns exactly min(k, N) entries.
C15_LengthIsMinKN ==
    (Searched /\ WellFormedIndex
       /\ search.top_k \in {0, 1, CorpusSize, CorpusSize + 5}) =>
        /\ found.outcome = "returned"
        /\ Len(found.similar) = Min(search.top_k, CorpusSize)

C15_Witness ==
    /\ Searched
    /\ WellFormedIndex
    /\ CorpusSize = 3
    /\ search.top_k = CorpusSize + 5
    /\ Len(found.similar) = 3

\* C16: for every k <= 0, negative k included, the search returns the empty
\* sequence.
C16_NonPositiveKIsEmpty ==
    (Searched /\ WellFormedIndex /\ search.top_k <= 0) =>
        /\ found.outcome = "returned"
        /\ found.similar = <<>>

\* C17: for k >= 1 on a well-formed index, the entries are in non-decreasing
\* order of distance, each is a person_id of the index with the distance of
\* that person's own row, no row is returned twice, and no row left out is
\* strictly closer than a returned one.
C17_SortedPairedClosest ==
    (Searched /\ WellFormedIndex /\ search.top_k >= 1) =>
        /\ found.outcome = "returned"
        /\ \A n \in 1..(Len(found.similar) - 1) :
              found.similar[n][2] <= found.similar[n + 1][2]
        /\ \A n \in 1..Len(found.similar) :
              \E i \in 1..CorpusSize :
                  found.similar[n] = <<search.all_person_ids[i], RowDistance(i)>>
        /\ \A m, n \in 1..Len(found.similar) :
              m # n => found.similar[m][1] # found.similar[n][1]
        /\ \A i \in 1..CorpusSize :
              (\A n \in 1..Len(found.similar) :
                   found.similar[n][1] # search.all_person_ids[i])
                => \A n \in 1..Len(found.similar) :
                       RowDistance(i) >= found.similar[n][2]

\* two of three rows returned, at different distances, the farthest left out
C17_Witness ==
    /\ Searched
    /\ WellFormedIndex
    /\ CorpusSize = 3
    /\ search.top_k = 2
    /\ Len(found.similar) = 2
    /\ found.similar[1][2] < found.similar[2][2]
    /\ found.similar[1][1] = "3"
    /\ \E i \in 1..CorpusSize : RowDistance(i) > found.similar[2][2]

\* C18: rows at exactly the same distance are returned in index order, and
\* a tied row left out at the cut-off comes after every returned row it ties
\* with.
C18_TiesKeepIndexOrder ==
    (Searched /\ WellFormedIndex /\ search.top_k >= 1) =>
        /\ \A n \in 1..(Len(found.similar) - 1) :
              found.similar[n][2] = found.similar[n + 1][2] =>
                  RowOf(found.similar[n]) < RowOf(found.similar[n + 1])
        /\ \A i \in 1..CorpusSize :
              (\A n \in 1..Len(found.similar) :
                   found.similar[n][1] # search.all_person_ids[i])
                => \A n \in 1..Len(found.similar) :
                       RowDistance(i) = found.similar[n][2] =>
                           RowOf(found.similar[n]) < i

\* C19 as stated: with the point equal to any row i and k >= 1, the first
\* entry is (person_ids[i], 0.0).
C19_AsStated ==
    (Searched /\ WellFormedIndex /\ search.top_k >= 1) =>
        \A i \in 1..CorpusSize :
            search.all_coordinates[i] = search.coordinates_3d =>
                /\ found.outcome = "returned"
                /\ found.similar # <<>>
                /\ found.similar[1] = <<search.all_person_ids[i], 0>>

\* C19: with the point equal to row i and k >= 1, the first entry is at
\* distance 0.0 and belongs to a row with the point's coordinates; it is
\* (person_ids[i], 0.0) when no other row has those coordinates.
C19_FirstIsAtDistanceZero ==
    (Searched /\ WellFormedIndex /\ search.top_k >= 1) =>
        \A i \in 1..CorpusSize :
            search.all_coordinates[i] = search.coordinates_3d =>
                /\ found.outcome = "returned"
                /\ found.similar # <<>>
                /\ found.similar[1][2] = 0
                /\ \E j \in 1..CorpusSize :
                      /\ search.all_coordinates[j] = search.coordinates_3d
                      /\ found.similar[1][1] = search.all_person_ids[j]
                /\ (\A j \in 1..CorpusSize :
                        j # i => search.all_coordinates[j] # search.coordinates_3d)
                      => found.similar[1] = <<search.all_person_ids[i], 0>>

\* the point is the last of three distinct rows
C19_Witness ==
    /\ Searched
    /\ WellFormedIndex
    /\ CorpusSize = 3
    /\ search.top_k >= 1
    /\ search.all_coordinates[3] = search.coordinates_3d
    /\ search.all_coordinates[1] # search.coordinates_3d
    /\ search.all_coordinates[2] # search.coordinates_3d
    /\ found.similar # <<>>
    /\ found.similar[1] = <<"3", 0>>

\* C20: on an index whose person_ids and coordinates differ in length the
\* search never returns a result sequence, whatever the point and k.
C20_MalformedIndexIsError ==
    (Searched /\ ~WellFormedIndex) => found.outcome # "returned"

----------------------------------------------------------------------------
(* generate_embedding *)

\* C21: every generate_embedding call makes exactly one provider call; when
\* the provider fails the call raises the provider's error and returns no
\* vector, and a vector returned is the one the provider gave.
C21_ProviderFailurePropagates ==
    \A n \in 1..Len(embed_log) :
        LET call == embed_log[n]
        IN  /\ Len(call.calls) = 1
            /\ call.provider \in ProviderErrors =>
                  /\ call.outcome = "raised"
                  /\ call.error = call.provider
                  /\ call.values = NoValues
            /\ call.provider = "vectors" =>
                  /\ call.outcome = "returned"
                  /\ call.values = Values(call.calls[1])

\* a failed call of each of the two functions
C21_Witness ==
    /\ Len(embed_log) = 2
    /\ embed_log[1].fn = "service"
    /\ embed_log[1].outcome = "raised"
    /\ embed_log[1].error = "ResourceExhausted"
    /\ embed_log[2].fn = "generator"
    /\ embed_log[2].outcome = "raised"
    /\ embed_log[2].error = "ServiceUnavailable"
    /\ embed_log[2].calls = <<MaxChars>>

----------------------------------------------------------------------------
(* Order of the sentences *)

\* the token a sentence opens with, and the place of that sentence in the
\* fixed order
SentenceOpeners ==
    {"Ada", "This person", "Studied ", "Educational background includes ",
     "Career includes ", "Received awards: ", "Received ", "Notable "}

Slot(token) ==
    CASE token \in {"Ada", "This person"} -> 1
      [] token \in {"Studied ", "Educational background includes "} -> 2
      [] token = "Career includes " -> 3
      [] token \in {"Received awards: ", "Received "} -> 4
      [] OTHER -> 5

Openers(text) == {i \in 1..Len(text) : text[i] \in SentenceOpeners}

\* where a type is first met in the input list
FirstMet(evs, t) ==
    CHOOSE i \in 1..Len(evs) :
        /\ Get(evs[i].event_type, "other") = t
        /\ \A j \in 1..(i - 1) : Get(evs[j].event_type, "other") # t

\* C22: the sentences stand in the order biography, education, employment,
\* awards, then one per remaining type in the order the types are first met
\* in the input list; every sentence ends with a full stop and consecutive
\* sentences are separated by exactly one space.  Name "Ada" with the one
\* education event Mathematics at Cambridge gives
\* "Ada. Studied Mathematics from Cambridge.".
C22_SentenceOrder ==
    (Returned /\ synth.narrative # FallbackSentence) =>
        LET text == synth.narrative
        IN  /\ 1 \in Openers(text)
            /\ text[Len(text)] = "."
            /\ \A i \in Openers(text) :
                  i > 1 => (text[i - 1] = " " /\ text[i - 2] = ".")
            /\ \A i \in 1..Len(text) :
                  text[i] = " " => (i > 1 /\ (i + 1) \in Openers(text))
            /\ \A i, j \in Openers(text) :
                  i < j =>
                    /\ Slot(text[i]) <= Slot(text[j])
                    /\ Slot(text[i]) = Slot(text[j]) =>
                          /\ Slot(text[i]) = 5
                          /\ FirstMet(events, text[i + 1]) < FirstMet(events, text[j + 1])
            /\ (name = "Ada" /\ description = None
                 /\ events = <<Event("education", "Mathematics", "Cambridge", 1)>>) =>
                  text = <<"Ada", ".", " ", "Studied ", "Mathematics", " from ",
                           "Cambridge", ".">>

\* the input lists travel, award, residence, education: the output has the
\* biography, education, awards, travel and residence sentences in that order
C22_Witness ==
    /\ Returned
    /\ name = "Ada"
    /\ Len(events) = 4
    /\ events[1].event_type = "travel"
    /\ events[2].event_type = "award"
    /\ events[3].event_type = "residence"
    /\ events[4].event_type = "education"
    /\ synth.narrative =
         <<"Ada", ".", " ", "Studied ", "Mathematics", " from ", "Cambridge", ".", " ",
           "Received awards: ", "Medal", ".", " ",
           "Notable ", "travel", " events: ", "1", ".", " ",
           "Notable ", "residence", " events: ", "1", ".">>

----------------------------------------------------------------------------
(* The award sentence *)

AwardGroup == SelectSeq(events, LAMBDA e : Get(e.event_type, "other") = "award")

\* the non-empty titles of the group, in input order
AwardTitles ==
    LET titled == SelectSeq(AwardGroup, LAMBDA e : HasTitle(e))
    IN  [i \in 1..Len(titled) |-> <<titled[i].event_title>>]

\* C23: an award group of more than 5 events gives "Received N awards and
\* honors." with N the size of the group, titled or not, and no list; a group
\* of at most 5 gives "Received awards: " followed by exactly its non-empty
\* titles in input order, and no award sentence when none has a title.
C23_AwardSentence ==
    Returned =>
        /\ Len(AwardGroup) > 5 =>
              /\ Contains(synth.narrative,
                          <<"Received ", ToString(Len(AwardGroup)), " awards and honors.">>)
              /\ Count(synth.narrative, {"Received "}) = 1
              /\ Count(synth.narrative, {"Received awards: "}) = 0
        /\ (Len(AwardGroup) <= 5 /\ AwardTitles # <<>>) =>
              /\ Contains(synth.narrative,
                          <<"Received awards: ">> \o Join(AwardTitles, ", ") \o <<".">>)
              /\ Count(synth.narrative, {"Received awards: "}) = 1
              /\ Count(synth.narrative, {"Received "}) = 0
              /\ Count(synth.narrative, {"Nobel", "Turing"}) = Len(AwardTitles)
        /\ (Len(AwardGroup) <= 5 /\ AwardTitles = <<>>) =>
              Count(synth.narrative, {"Received awards: ", "Received "}) = 0

\* six awards, two of them without a title
C23_Witness ==
    /\ Returned
    /\ Len(events) = 6
    /\ Len(AwardGroup) = 6
    /\ Len(AwardTitles) = 4
    /\ synth.narrative = <<"Received ", "6", " awards and honors.">>

----------------------------------------------------------------------------
(* The sentences of the remaining types *)

NamedGroups == {"education", "employment", "award"}

\* the input events outside the three named groups (an event without a type
\* has the type "other")
Outside == {i \in 1..Len(events) : Get(events[i].event_type, "other") \notin NamedGroups}

OfType(t) == {i \in 1..Len(events) : Get(events[i].event_type, "other") = t}

\* the number a count token spells
Numeral(token) == CHOOSE k \in 0..(Len(events) + 1) : ToString(k) = token

\* the counts printed by the "Notable" sentences of a text, added up
RECURSIVE PrintedTotal(_)
PrintedTotal(text) ==
    IF text = <<>> THEN 0
    ELSE IF Head(text) = "Notable " THEN Numeral(text[4]) + PrintedTotal(Tail(text))
    ELSE PrintedTotal(Tail(text))

Occurrences(text, sub) ==
    Cardinality({i \in 0..(Len(text) - Len(sub)) : SubSeq(text, i + 1, i + Len(sub)) = sub})

\* C24: for every type outside education, employment and award that occurs
\* in the input the output has exactly one "Notable {type} events: {count}."
\* sentence, its count the number of input events of that type; there is no
\* other "Notable" sentence and the counts add up to the number of input
\* events outside the three named groups.
C24_OtherTypeSentences ==
    Returned =>
        /\ \A i \in Outside :
              LET t == Get(events[i].event_type, "other")
              IN  /\ Occurrences(synth.narrative,
                                 <<"Notable ", t, " events: ",
                                   ToString(Cardinality(OfType(t))), ".">>) = 1
                  /\ Occurrences(synth.narrative, <<"Notable ", t>>) = 1
        /\ Count(synth.narrative, {"Notable "})
             = Cardinality({Get(events[i].event_type, "other") : i \in Outside})
        /\ PrintedTotal(synth.narrative) = Cardinality(Outside)

\* two travel events around a residence event and an education event
C24_Witness ==
    /\ Returned
    /\ Len(events) = 4
    /\ Cardinality(OfType("travel")) = 2
    /\ Cardinality(OfType("residence")) = 1
    /\ Cardinality(OfType("education")) = 1
    /\ events[1].event_type = "travel"
    /\ events[4].event_type = "travel"
    /\ Contains(synth.narrative, <<"Notable ", "travel", " events: ", "2", ".", " ",
                                   "Notable ", "residence", " events: ", "1", ".">>)

----------------------------------------------------------------------------
(* The two stages of project_to_3d *)

\* C25: a project_to_3d call applies the PCA stage first and to the raw
\* embedding, then the UMAP stage to the PCA stage's output, and never the
\* UMAP stage to the raw embedding; a call that returns has applied each
\* stage exactly once and returns the UMAP output of the PCA output.
C25_StagesInOrder ==
    /\ Len(stages) <= 2
    /\ Len(stages) >= 1 => (stages[1].stage = "pca" /\ stages[1].arg = "embedding_768d")
    /\ Len(stages) = 2 => (stages[2].stage = "umap" /\ stages[2].arg = "embedding_50d")
    /\ (proj.outcome = "returned" /\ pc = "idle") =>
          /\ Len(stages) = 2
          /\ embedding_50d = PcaTransform(stages[1].model, embedding_768d)
          /\ proj.coordinates = UmapTransform(stages[2].model, embedding_50d)
          /\ proj.coordinates.pca # NoModel

C25_Witness ==
    /\ proj.outcome = "returned"
    /\ pc = "idle"
    /\ embedding_768d = 2
    /\ stages = <<[stage |-> "pca", model |-> "pca1", arg |-> "embedding_768d"],
                  [stage |-> "umap", model |-> "umap1", arg |-> "embedding_50d"]>>
    /\ proj.coordinates = [umap |-> "umap1", pca |-> "pca1", input |-> 2]

----------------------------------------------------------------------------
(* Loading next to projecting *)

\* C29: whenever the load flag is set both stage models are present, and a
\* project_to_3d call that passed the readiness check does not fail.
C29_LoadedMeansBothPresent ==
    /\ models_loaded => (pca_model # NoModel /\ umap_model # NoModel)
    /\ proj.outcome \in {"none", "running", "returned", "ModelNotReady"}

\* C30: the two stages a project_to_3d call applied come from the same
\* load_reduction_models call, whatever loads ran during the call.
C30_StagesFromOneLoad ==
    (proj.outcome = "returned" /\ pc = "idle") =>
        \E l \in Loads : stages[1].model = l[1] /\ stages[2].model = l[2]

----------------------------------------------------------------------------
(* The batch embedding job *)

JobCalls == SelectSeq(job.trace, LAMBDA step : step.op = "call")

\* the number of batches: ceil(n / batch_size)
BatchCount == (job.n + job.batch_size - 1) \div job.batch_size

JobDone == job.pc \in {"returned", "raised"}

\* the persons of the batches whose call succeeded, in order
RECURSIVE RecordsOf(_)
RecordsOf(calls) ==
    IF calls = <<>> THEN <<>>
    ELSE (IF Head(calls).response = "vectors" THEN Head(calls).texts ELSE <<>>)
         \o RecordsOf(Tail(calls))

\* C26: the provider calls made are those of the batches in input order,
\* each batch once; the records are those of the batches whose call
\* succeeded and of no other; when the job ends every batch has been
\* attempted; and the job ends.
C26_EveryBatchOnceInOrder ==
    /\ [](/\ Len(JobCalls) <= BatchCount
          /\ \A k \in 1..Len(JobCalls) :
                /\ JobCalls[k].i = (k - 1) * job.batch_size
                /\ JobCalls[k].texts = Batch((k - 1) * job.batch_size, job.batch_size, job.n)
          /\ job.embedding_records = RecordsOf(JobCalls)
          /\ JobDone => Len(JobCalls) = BatchCount)
    /\ <>JobDone

\* four persons in batches of one: the second call fails, the third and
\* fourth are still made, and the job returns three records
C26_Witness ==
    /\ job.pc = "returned"
    /\ job.n = 4
    /\ job.batch_size = 1
    /\ Len(JobCalls) = 4
    /\ JobCalls[2].response = "ResourceExhausted"
    /\ JobCalls[3].response = "vectors"
    /\ job.embedding_records = <<1, 3, 4>>

\* C27: between any two consecutive provider calls of the job the pause is
\* taken, whether the earlier call succeeded or failed.
C27_PauseBetweenCalls ==
    \A k \in 1..(Len(job.trace) - 1) :
        job.trace[k].op = "call" => job.trace[k + 1].op = "sleep"

----------------------------------------------------------------------------
(* Requests served concurrently against one loaded state *)

\* what a request can return when it runs alone against the loaded state
Alone(request) ==
    CASE request.kind = "project" ->
           {[outcome |-> "returned",
             coordinates |-> UmapTransform(umap_model,
                                 PcaTransform(pca_model, request.embedding_768d))]}
      [] request.kind = "nearest" ->
           {find_nearest_cluster(request.coordinates_3d, search.clusters_info)}
      [] request.kind = "top_k" ->
           {find_similar_persons(request.coordinates_3d, search.all_person_ids,
                                 search.all_coordinates, search.top_k, order) :
              order \in Argsort(Distances(request.coordinates_3d,
                                          search.all_coordinates))}
      [] request.kind = "synthesize" ->
           {create_narrative_from_events(events, name, request.description)}

\* C28: no step of a project, nearest-cluster, top-k or synthesis request
\* changes the model handles, the load flag, the cluster set or the corpus
\* index, and under every interleaving a finished request has returned what
\* it returns when run alone.
C28_RequestsAreIndependent ==
    /\ [][UNCHANGED <<pca_model, umap_model, models_loaded, search>>]_vars
    /\ [](\A r \in 1..MaxRequests :
            reqs[r].pc = "done" => reqs[r].result \in Alone(reqs[r]))

\* two projections of different embeddings served together, both returned
C28_Witness ==
    /\ reqs[1].kind = "project"
    /\ reqs[2].kind = "project"
    /\ reqs[1].embedding_768d # reqs[2].embedding_768d
    /\ reqs[1].pc = "done"
    /\ reqs[2].pc = "done"
    /\ reqs[1].result.outcome = "returned"
    /\ reqs[2].result.coordinates = [umap |-> "umap1", pca |-> "pca1", input |-> reqs[2].embedding_768d]

====
